---- MODULE Spec2Model ----
(***************************************************************************)
(* Batch acquisition of per-identifier stock histories                     *)
(* (src/data/get-all-stock-data.py with its fetcher subprocess             *)
(* src/data/get-stock-data.py).                                            *)
(*                                                                         *)
(* One behaviour is a sequence of runs of the program against one artifact *)
(* store (the directory jp_all).  A run is main(): the identifier list is  *)
(* read, fetch_all_stocks submits one fetch_single_stock task per list     *)
(* entry to a ThreadPoolExecutor of max_workers threads, the tasks run     *)
(* interleaved at the granularity of their file-system calls, the main     *)
(* thread collects the finished futures, returns the count and exits.      *)
(*                                                                         *)
(* Spec        runs of the orchestrator, one after another, on one store   *)
(* FairSpec    one run on any store earlier runs can leave, under fairness *)
(* SpecFetch   one execution of the fetcher subprocess, attempt by attempt *)
(* SpecExtract one call of extract_stock_codes on a roster column          *)
(***************************************************************************)
EXTENDS Integers, Sequences, FiniteSets, TLC

\* ------------------------------------------------------------------ bounds
MaxLen == 2          \* longest identifier list of a run
MaxWorkers == 2      \* largest max_workers of a run
MaxRuns == 2         \* runs against the same store in one behaviour

\* -------------------------------------------------------- program constants
Threshold == 100     \* os.path.getsize(output_file) > 100

\* Identifiers (4-digit codes); lists may repeat an identifier.
Codes == {"7203", "9984"}

CodeLists == UNION {[1..n -> Codes] : n \in 0..MaxLen}

\* What the fetcher subprocess does for an identifier during one run:
\*   ok      : fetch_stock_data returns data, a payload above the threshold
\*             is written to stdout, exit status 0
\*   small   : as ok, but the payload is of threshold size
\*   nodata  : fetch_stock_data returns None, nothing on stdout, exit status 1
\*   noexec  : subprocess.run itself raises (the child cannot be started)
\*   noopen  : open(output_file, 'w') raises (a storage error)
Behaviours == {"ok", "small", "nodata", "noexec", "noopen"}

\* The payload get-stock-data.py writes to its standard output, by size.
PayloadSize(b) == CASE b = "ok" -> Threshold + 1
                    [] b = "small" -> Threshold
                    [] OTHER -> 0

\* The exit status of get-stock-data.py: 0 after data.to_csv, 1 after
\* fetch_stock_data returned None.
ReturnCode(b) == IF b \in {"ok", "small"} THEN 0 ELSE 1

\* A file of the store: its size and the run whose fetcher wrote its bytes
\* (the contents); Absent is a path with no file.
Absent == [size |-> -1, gen |-> 0]
File(s, g) == [size |-> s, gen |-> g]
\* open(output_file, 'w') leaves a file of no bytes.
EmptyFile == File(0, 0)
Files == {Absent, EmptyFile} \cup {File(s, g) : s \in {Threshold, Threshold + 1}, g \in 1..MaxRuns}

\* The fetcher's behaviour for the identifiers of a list; an identifier that
\* is not in the list is never fetched, and its entry is fixed.
RunBehaviours(cs) ==
    {b \in [Codes -> Behaviours] :
        \A c \in Codes : (\A i \in DOMAIN cs : cs[i] # c) => b[c] = "ok"}

NoValue == -1

Max(a, b) == IF a >= b THEN a ELSE b

VARIABLES
    run,         \* number of the current run
    roster,      \* what became of the roster download of the current run
    codes,       \* stock_codes of the current run
    workers,     \* max_workers of the current run
    behav,       \* what the fetcher does per identifier in the current run
    store,       \* jp_all: identifier -> file
    startStore,  \* the store as the current run found it
    prevOK,      \* identifiers of the previous run if all its items returned True
    mainpc,      \* position of the main thread
    nsub,        \* tasks submitted so far
    pc,          \* position of each task
    linked,      \* task's open handle refers to the file now at its path
    rc,          \* task's result.returncode
    outcome,     \* task's outcome, by the return statement it took
    fetched,     \* task has started the fetcher subprocess
    collected,   \* task's future has been consumed by the collecting loop
    successful,  \* fetch_all_stocks' counter
    failed,      \* fetch_all_stocks' counter
    ret,         \* value returned by fetch_all_stocks
    exitStatus   \* status of sys.exit

mainVars == <<run, roster, codes, workers, behav, store, startStore, prevOK,
              mainpc, nsub, pc, linked, rc, outcome, fetched, collected,
              successful, failed, ret, exitStatus>>

\* One execution of the fetcher subprocess get-stock-data.py, by itself.
VARIABLES
    argc,        \* len(sys.argv) of the subprocess
    provider,    \* what stock.history does at each attempt
    dataSize,    \* bytes of the serialized series, when there is one
    fpc,         \* position of the subprocess
    attempt,     \* fetch_stock_data's loop variable
    calls,       \* calls of stock.history so far
    sleeps,      \* calls of time.sleep so far
    fret,        \* what fetch_stock_data returned
    stdout,      \* bytes the subprocess has written to its standard output
    childExit    \* exit status of the subprocess

fetchVars == <<argc, provider, dataSize, fpc, attempt, calls, sleeps, fret,
               stdout, childExit>>

\* One call of extract_stock_codes, by itself.
VARIABLES
    column,      \* the cells of column 'コード' of the roster file, in order
    readable,    \* pd.read_csv succeeds and the column is there
    xpc,         \* position of the call
    result       \* the list the call returned

extractVars == <<column, readable, xpc, result>>

vars == <<mainVars, fetchVars, extractVars>>

\* What a step of one of the three programs leaves alone.
notMain == <<fetchVars, extractVars>>
notFetch == <<mainVars, extractVars>>
notExtract == <<mainVars, fetchVars>>

Tasks == DOMAIN codes

\* output_file = f"jp_all/{stock_code}.stock.csv": the path is the identifier.
PathOf(i) == codes[i]

Range(f) == {f[i] : i \in DOMAIN f}

\* ------------------------------------------------- fetch_single_stock parts

\* Mutants of the skip test: one that also asks for a size above the
\* threshold, one that never skips.
SkipTestSized(f) == f # Absent /\ f.size > Threshold
SkipTestNever(f) == FALSE

\* if os.path.exists(output_file): the skip test looks at existence only.
SkipTest(f) == f # Absent

\* Mutant of the size check: >= for >.
ValidSizeInclusive(f) == f # Absent /\ f.size >= Threshold

\* os.path.exists(output_file) and os.path.getsize(output_file) > 100
ValidSize(f) == f # Absent /\ f.size > Threshold

\* The outcome fetch_single_stock gives a fetch by the exit status of the
\* subprocess and the file found at the path: if result.returncode == 0, the
\* size check decides; else Failure.
Classify(code, f) ==
    IF code = 0
    THEN IF ValidSize(f) THEN "Success" ELSE "Failure"
    ELSE "Failure"

\* Mutant of the returned boolean: the skip returns False.
ReturnsTrueOnFetchOnly(o) == o = "Success"

\* The boolean fetch_single_stock returns at each of its return statements:
\* True where it skips and where the size check passes, False elsewhere.
Returns(o) == o \in {"Skipped", "Success"}

\* Mutant of the removal: the file is left in place.
RemoveFileSkipped(st, p) == st

\* if os.path.exists(output_file): os.remove(output_file)   (returncode != 0)
RemoveFile(st, p) == [st EXCEPT ![p] = Absent]

\* The child writes its payload through the handle inherited from the task:
\* at offset 0 of the file the handle refers to.  A handle whose file was
\* removed from the directory writes to a file no path names.
WritePayload(st, p, isLinked, b) ==
    IF isLinked /\ PayloadSize(b) > 0
    THEN [st EXCEPT ![p] = File(Max(st[p].size, PayloadSize(b)), run)]
    ELSE st

\* --------------------------------------------------- ThreadPoolExecutor

\* Tasks a worker thread is executing.
Active == {i \in Tasks : pc[i] \in {"check", "open", "run", "validate"}}

\* Tasks whose fetcher subprocess is running.
Fetching == {i \in Tasks : pc[i] = "run"}

\* Mutant of the pool: a queued task is started whatever the pool's size.
WorkerAlwaysFree == TRUE

\* A thread of the pool is idle, or the pool may still start one.
WorkerFree == Cardinality(Active) < workers

\* ------------------------------------------------------ fetch_all_stocks

\* Mutants of the failure counter: the increment is lost; a failure is
\* counted twice.
FailedAfterLost(n, ok) == n
FailedAfterTwice(n, ok) == IF ok THEN n ELSE n + 2

\* successful += 1 / failed += 1 on one finished future.
SuccessfulAfter(n, ok) == IF ok THEN n + 1 ELSE n
FailedAfter(n, ok) == IF ok THEN n ELSE n + 1

\* Mutant of the end of the collecting loop: it does not wait for the futures.
AllCollectedUnchecked == TRUE

\* as_completed(future_to_code) is exhausted: every future has been yielded
\* and its result counted.
AllCollected == \A i \in Tasks : collected[i]

\* Mutant of the exit test: more than one success is asked for.
ExitStatusStrict(n) == IF n > 1 THEN 0 ELSE 1

\* if successful > 0: sys.exit(0) else: sys.exit(1)
ExitStatusOf(n) == IF n > 0 THEN 0 ELSE 1

\* Mutant of the download test: main goes on after a failed download.
DownloadIgnored(ok) == "extract"

\* if not download_company_list(): sys.exit(1); the position main goes to.
AfterDownload(ok) == IF ok THEN "extract" ELSE "exited"

\* Mutant of the empty-list test: main goes on with an empty list.
NoCodesNever(cs) == FALSE

\* if not stock_codes: sys.exit(1)
NoCodes(cs) == Len(cs) = 0

\* ------------------------------------------------- get-stock-data.py parts

\* max_attempts = 3
MaxAttempts == 3

\* stock.history returns a non-empty history, returns an empty one, or raises.
Responses == {"data", "empty", "error"}

\* The sizes a serialized series is given: of the threshold and above it.
SeriesSizes == {Threshold, Threshold + 1}

\* print("Usage: get-stock-data.py <ticker> [period]") with its newline.
UsageSize == 43

\* cmd = [sys.executable, script_path, stock_code, period]: sys.argv of the
\* child is the script, the code and the period.
OrchestratorArgc == 3

\* Mutant of the retry test: the first failure is the last.
RetryNever(a) == FALSE

\* if attempt < max_attempts: the failed attempt is followed by another.
RetryAfter(a) == a < MaxAttempts

\* Mutant of the exit status: 0 whatever fetch_stock_data returned.
ChildExitZero(r) == 0

\* main's end: falling off after data.to_csv is status 0, else sys.exit(1).
ChildExitOf(r) == IF r = "data" THEN 0 ELSE 1

\* The subprocess has not been started.
FetcherParked ==
    /\ argc = OrchestratorArgc
    /\ provider = [a \in 1..MaxAttempts |-> "data"]
    /\ dataSize = Threshold + 1
    /\ fpc = "idle"
    /\ attempt = 0
    /\ calls = 0
    /\ sleeps = 0
    /\ fret = "none"
    /\ stdout = 0
    /\ childExit = NoValue

\* ---------------------------------------------- extract_stock_codes parts

MaxRows == 2         \* longest roster column

\* A cell of the roster file is a text, a sequence of characters, or is empty.
Missing == <<>>

Digits == {"0", "1", "2", "3", "4", "5", "6", "7", "8", "9"}

DigitValue == ("0" :> 0) @@ ("1" :> 1) @@ ("2" :> 2) @@ ("3" :> 3) @@ ("4" :> 4)
              @@ ("5" :> 5) @@ ("6" :> 6) @@ ("7" :> 7) @@ ("8" :> 8) @@ ("9" :> 9)

DigitChar == [d \in 0..9 |-> CHOOSE ch \in Digits : DigitValue[ch] = d]

\* The cells a roster column is made of: a 4-digit code, a code with a
\* letter, 3 and 5 digits, a code with a leading zero, 4 digits with a letter
\* after them, and the empty cell.
Cells == { <<"1", "3", "0", "1">>,
           <<"1", "3", "0", "A">>,
           <<"1", "3", "0">>,
           <<"1", "3", "0", "1", "0">>,
           <<"0", "1", "3", "0">>,
           <<"1", "3", "0", "1", "T">>,
           Missing }

Columns == UNION {[1..n -> Cells] : n \in 0..MaxRows}

\* str.isdigit on one character.
IsDigit(ch) == ch \in Digits

\* ''.join(filter(str.isdigit, str(code)))
OnlyDigits(text) == SelectSeq(text, IsDigit)

\* The cell is an integer literal.
IsInteger(text) == Len(text) > 0 /\ \A k \in 1..Len(text) : IsDigit(text[k])

RECURSIVE IntOf(_)
\* The integer pd.read_csv parses from an integer literal.
IntOf(text) ==
    IF Len(text) = 0 THEN 0
    ELSE 10 * IntOf(SubSeq(text, 1, Len(text) - 1)) + DigitValue[text[Len(text)]]

RECURSIVE StrOfInt(_)
\* str of a non-negative integer.
StrOfInt(n) ==
    IF n < 10 THEN <<DigitChar[n]>>
    ELSE Append(StrOfInt(n \div 10), DigitChar[n % 10])

\* dropna(): the cells that are not empty, in order.
DropNa(col) == SelectSeq(col, LAMBDA cell : cell # Missing)

\* The dtype pd.read_csv gives the column: object when a cell is not a
\* number, float64 when every cell is an integer literal or empty and one is
\* empty (the empty cell is NaN), int64 when every cell is an integer literal.
DType(col) ==
    IF \E k \in 1..Len(col) : col[k] # Missing /\ ~IsInteger(col[k]) THEN "object"
    ELSE IF Len(col) = 0 THEN "object"
    ELSE IF \E k \in 1..Len(col) : col[k] = Missing THEN "float64"
    ELSE "int64"

\* astype(str) on one value of the column: the text itself in an object
\* column, str(int) in an int64 column, str(float) in a float64 column.
AsTypeStr(cell, dtype) ==
    CASE dtype = "object" -> cell
      [] dtype = "int64" -> StrOfInt(IntOf(cell))
      [] dtype = "float64" -> StrOfInt(IntOf(cell)) \o <<".", "0">>

\* The code's required number of digits: if len(clean_code) == 4.
CodeLength == 4

\* extract_stock_codes(filepath): [] when reading raises, else the digits of
\* each non-missing value's string, kept when there are exactly 4 of them.
ExtractStockCodes(col, ok) ==
    IF ~ok THEN <<>>
    ELSE LET values == DropNa(col)
             strs == [k \in 1..Len(values) |-> AsTypeStr(values[k], DType(col))]
             clean == [k \in 1..Len(strs) |-> OnlyDigits(strs[k])]
         IN  SelectSeq(clean, LAMBDA c : Len(c) = CodeLength)

\* No call of extract_stock_codes by itself is under way.
ExtractParked ==
    /\ column = <<>>
    /\ readable = TRUE
    /\ xpc = "idle"
    /\ result = <<>>

\* ------------------------------------------------------------- the runs

TypeOK ==
    /\ run \in 1..MaxRuns
    /\ roster \in {"none", "ok", "failed"}
    /\ codes \in CodeLists
    /\ workers \in 1..MaxWorkers
    /\ behav \in [Codes -> Behaviours]
    /\ store \in [Codes -> Files]
    /\ startStore \in [Codes -> Files]
    /\ prevOK \subseteq Codes
    /\ mainpc \in {"start", "extract", "running", "called", "returned", "finished", "exited", "ended"}
    /\ nsub \in 0..Len(codes)
    /\ pc \in [Tasks -> {"unsubmitted", "queued", "check", "open", "run", "validate", "done"}]
    /\ linked \in [Tasks -> BOOLEAN]
    /\ rc \in [Tasks -> {NoValue, 0, 1}]
    /\ outcome \in [Tasks -> {"none", "Skipped", "Success", "Failure"}]
    /\ fetched \in [Tasks -> BOOLEAN]
    /\ collected \in [Tasks -> BOOLEAN]
    /\ successful \in 0..Len(codes)
    /\ failed \in 0..Len(codes)
    /\ ret \in {NoValue} \cup 0..Len(codes)
    /\ exitStatus \in {NoValue, 0, 1}

Init ==
    /\ run = 1
    /\ roster = "none"
    /\ codes \in CodeLists
    /\ workers \in 1..MaxWorkers
    /\ behav \in RunBehaviours(codes)
    /\ store = [c \in Codes |-> Absent]
    /\ startStore = store
    /\ prevOK = {}
    /\ mainpc = "start"
    /\ nsub = 0
    /\ pc = [i \in Tasks |-> "unsubmitted"]
    /\ linked = [i \in Tasks |-> FALSE]
    /\ rc = [i \in Tasks |-> NoValue]
    /\ outcome = [i \in Tasks |-> "none"]
    /\ fetched = [i \in Tasks |-> FALSE]
    /\ collected = [i \in Tasks |-> FALSE]
    /\ successful = 0
    /\ failed = 0
    /\ ret = NoValue
    /\ exitStatus = NoValue
    /\ FetcherParked
    /\ ExtractParked

\* main's download step: if not download_company_list(): sys.exit(1).
\* download_company_list returns False when no engine reads the workbook or
\* when it raises, True once data_j.csv is written; with --skip-download the
\* step is passed over and the roster of an earlier download is used, which
\* main treats as the successful case.
Download ==
    /\ UNCHANGED notMain
    /\ mainpc = "start"
    /\ \E ok \in BOOLEAN :
          /\ roster' = IF ok THEN "ok" ELSE "failed"
          /\ mainpc' = AfterDownload(ok)
    /\ exitStatus' = IF mainpc' = "exited" THEN 1 ELSE exitStatus
    /\ UNCHANGED <<run, codes, workers, behav, store, startStore, prevOK,
                   nsub, pc, linked, rc, outcome, fetched, collected,
                   successful, failed, ret>>

\* main, from the extraction of the codes to the call of fetch_all_stocks:
\* sys.exit(1) on an empty list, else successful = 0; failed = 0.
Begin ==
    /\ UNCHANGED notMain
    /\ mainpc = "extract"
    /\ IF NoCodes(codes)
       THEN /\ mainpc' = "exited"
            /\ exitStatus' = 1
       ELSE /\ mainpc' = "running"
            /\ UNCHANGED exitStatus
    /\ UNCHANGED <<run, roster, codes, workers, behav, store, startStore, prevOK,
                   nsub, pc, linked, rc, outcome, fetched, collected,
                   successful, failed, ret>>

\* fetch_all_stocks called with an empty list.  main never does so (it has
\* exited), so this is a call of the function by itself: successful = 0;
\* failed = 0, no task is submitted, and no sys.exit follows the return.
CallWithEmptyList ==
    /\ UNCHANGED notMain
    /\ mainpc = "start"
    /\ Len(codes) = 0
    /\ mainpc' = "called"
    /\ UNCHANGED <<run, roster, codes, workers, behav, store, startStore, prevOK,
                   nsub, pc, linked, rc, outcome, fetched, collected,
                   successful, failed, ret, exitStatus>>

\* The main thread is inside fetch_all_stocks.
InFetchAll == mainpc \in {"running", "called"}

\* executor.submit(fetch_single_stock, code, period), one list entry at a time.
Submit ==
    /\ UNCHANGED notMain
    /\ InFetchAll
    /\ nsub < Len(codes)
    /\ nsub' = nsub + 1
    /\ pc' = [pc EXCEPT ![nsub + 1] = "queued"]
    /\ UNCHANGED <<run, roster, codes, workers, behav, store, startStore, prevOK,
                   mainpc, linked, rc, outcome, fetched, collected,
                   successful, failed, ret, exitStatus>>

\* A pool thread takes the oldest queued task (the work queue is FIFO) and
\* enters fetch_single_stock: os.makedirs("jp_all", exist_ok=True).
Take(i) ==
    /\ UNCHANGED notMain
    /\ pc[i] = "queued"
    /\ \A j \in Tasks : j < i => pc[j] # "queued"
    /\ WorkerFree
    /\ pc' = [pc EXCEPT ![i] = "check"]
    /\ UNCHANGED <<run, roster, codes, workers, behav, store, startStore, prevOK,
                   mainpc, nsub, linked, rc, outcome, fetched, collected,
                   successful, failed, ret, exitStatus>>

\* if os.path.exists(output_file): return True
Check(i) ==
    /\ UNCHANGED notMain
    /\ pc[i] = "check"
    /\ IF SkipTest(store[PathOf(i)])
       THEN /\ pc' = [pc EXCEPT ![i] = "done"]
            /\ outcome' = [outcome EXCEPT ![i] = "Skipped"]
       ELSE /\ pc' = [pc EXCEPT ![i] = "open"]
            /\ UNCHANGED outcome
    /\ UNCHANGED <<run, roster, codes, workers, behav, store, startStore, prevOK,
                   mainpc, nsub, linked, rc, fetched, collected,
                   successful, failed, ret, exitStatus>>

\* with open(output_file, 'w') as f: subprocess.run(cmd, stdout=f, ...) up to
\* the start of the child.  open creates the file or truncates the one at the
\* path; when open raises, no file is made and the except clause returns
\* False.  When the child cannot be started subprocess.run raises, the handle
\* is closed and the except clause returns False: the empty file stays.
Open(i) ==
    /\ UNCHANGED notMain
    /\ pc[i] = "open"
    /\ store' = IF behav[codes[i]] = "noopen"
                THEN store
                ELSE [store EXCEPT ![PathOf(i)] = EmptyFile]
    /\ IF behav[codes[i]] \in {"noexec", "noopen"}
       THEN /\ pc' = [pc EXCEPT ![i] = "done"]
            /\ outcome' = [outcome EXCEPT ![i] = "Failure"]
            /\ UNCHANGED <<linked, fetched>>
       ELSE /\ pc' = [pc EXCEPT ![i] = "run"]
            /\ linked' = [linked EXCEPT ![i] = TRUE]
            /\ fetched' = [fetched EXCEPT ![i] = TRUE]
            /\ UNCHANGED outcome
    /\ UNCHANGED <<run, roster, codes, workers, behav, startStore, prevOK,
                   mainpc, nsub, rc, collected, successful, failed, ret,
                   exitStatus>>

\* The child (get-stock-data.py main) ends: data.to_csv(sys.stdout) and exit
\* status 0, or nothing written and sys.exit(1).  The with block closes f.
FetcherExit(i) ==
    /\ UNCHANGED notMain
    /\ pc[i] = "run"
    /\ store' = WritePayload(store, PathOf(i), linked[i], behav[codes[i]])
    /\ rc' = [rc EXCEPT ![i] = ReturnCode(behav[codes[i]])]
    /\ linked' = [linked EXCEPT ![i] = FALSE]
    /\ pc' = [pc EXCEPT ![i] = "validate"]
    /\ UNCHANGED <<run, roster, codes, workers, behav, startStore, prevOK,
                   mainpc, nsub, outcome, fetched, collected,
                   successful, failed, ret, exitStatus>>

\* if result.returncode == 0: the size check, True or False;
\* else: remove the file if it exists, False.
Validate(i) ==
    /\ UNCHANGED notMain
    /\ pc[i] = "validate"
    /\ outcome' = [outcome EXCEPT ![i] = Classify(rc[i], store[PathOf(i)])]
    /\ IF rc[i] = 0
       THEN UNCHANGED <<store, linked>>
       ELSE /\ store' = RemoveFile(store, PathOf(i))
            /\ linked' = [j \in Tasks |-> linked[j] /\ PathOf(j) # PathOf(i)]
    /\ rc' = [rc EXCEPT ![i] = NoValue]
    /\ pc' = [pc EXCEPT ![i] = "done"]
    /\ UNCHANGED <<run, roster, codes, workers, behav, startStore, prevOK,
                   mainpc, nsub, fetched, collected,
                   successful, failed, ret, exitStatus>>

\* for future in as_completed(future_to_code): success = future.result();
\* one counter is incremented.  fetch_single_stock catches every exception,
\* so result() returns its boolean.
Collect(i) ==
    /\ UNCHANGED notMain
    /\ InFetchAll
    /\ nsub = Len(codes)
    /\ pc[i] = "done"
    /\ ~collected[i]
    /\ collected' = [collected EXCEPT ![i] = TRUE]
    /\ successful' = SuccessfulAfter(successful, Returns(outcome[i]))
    /\ failed' = FailedAfter(failed, Returns(outcome[i]))
    /\ UNCHANGED <<run, roster, codes, workers, behav, store, startStore, prevOK,
                   mainpc, nsub, pc, linked, rc, outcome, fetched, ret,
                   exitStatus>>

\* as_completed is exhausted, the with block of the executor ends,
\* return successful.
Return ==
    /\ UNCHANGED notMain
    /\ InFetchAll
    /\ nsub = Len(codes)
    /\ AllCollected
    /\ ret' = successful
    /\ mainpc' = IF mainpc = "running" THEN "returned" ELSE "finished"
    /\ UNCHANGED <<run, roster, codes, workers, behav, store, startStore, prevOK,
                   nsub, pc, linked, rc, outcome, fetched, collected,
                   successful, failed, exitStatus>>

\* main after fetch_all_stocks: sys.exit(0) if successful > 0 else sys.exit(1).
Exit ==
    /\ UNCHANGED notMain
    /\ mainpc = "returned"
    /\ exitStatus' = ExitStatusOf(ret)
    /\ mainpc' = "exited"
    /\ UNCHANGED <<run, roster, codes, workers, behav, store, startStore, prevOK,
                   nsub, pc, linked, rc, outcome, fetched, collected,
                   successful, failed, ret>>

\* The steps of fetch_all_stocks: of its main thread and of its tasks.
BatchStep ==
    \/ Submit
    \/ \E i \in Tasks : Take(i) \/ Check(i) \/ Open(i) \/ FetcherExit(i)
                            \/ Validate(i) \/ Collect(i)
    \/ Return

\* The run is over: main has exited, or the call by itself has returned.
RunOver == mainpc \in {"exited", "finished"}

\* The process ends: what it held in memory is gone, the store stays.
ProcessEnds ==
    /\ UNCHANGED notMain
    /\ RunOver
    /\ prevOK' = IF ret = Len(codes) THEN Range(codes) ELSE {}
    /\ mainpc' = "ended"
    /\ roster' = "none"
    /\ codes' = <<>>
    /\ workers' = 1
    /\ behav' = [c \in Codes |-> "ok"]
    /\ startStore' = store
    /\ nsub' = 0
    /\ pc' = <<>>
    /\ linked' = <<>>
    /\ rc' = <<>>
    /\ outcome' = <<>>
    /\ fetched' = <<>>
    /\ collected' = <<>>
    /\ successful' = 0
    /\ failed' = 0
    /\ ret' = NoValue
    /\ exitStatus' = NoValue
    /\ UNCHANGED <<run, store>>

\* The program is started again on the same store, with any identifier list,
\* worker count and fetcher behaviour.
NextRun ==
    /\ UNCHANGED notMain
    /\ mainpc = "ended"
    /\ run < MaxRuns
    /\ run' = run + 1
    /\ codes' \in CodeLists
    /\ workers' \in 1..MaxWorkers
    /\ behav' \in RunBehaviours(codes')
    /\ mainpc' = "start"
    /\ pc' = [i \in DOMAIN codes' |-> "unsubmitted"]
    /\ linked' = [i \in DOMAIN codes' |-> FALSE]
    /\ rc' = [i \in DOMAIN codes' |-> NoValue]
    /\ outcome' = [i \in DOMAIN codes' |-> "none"]
    /\ fetched' = [i \in DOMAIN codes' |-> FALSE]
    /\ collected' = [i \in DOMAIN codes' |-> FALSE]
    /\ UNCHANGED <<roster, store, startStore, prevOK, nsub, successful,
                   failed, ret, exitStatus>>

Next ==
    \/ Download
    \/ Begin
    \/ CallWithEmptyList
    \/ Submit
    \/ \E i \in Tasks : Take(i)
    \/ \E i \in Tasks : Check(i)
    \/ \E i \in Tasks : Open(i)
    \/ \E i \in Tasks : FetcherExit(i)
    \/ \E i \in Tasks : Validate(i)
    \/ \E i \in Tasks : Collect(i)
    \/ Return
    \/ Exit
    \/ ProcessEnds
    \/ NextRun

Spec == Init /\ [][Next]_vars

\* The steps of one run.
RunStep ==
    \/ Download
    \/ Begin
    \/ CallWithEmptyList
    \/ Submit
    \/ \E i \in Tasks : Take(i)
    \/ \E i \in Tasks : Check(i)
    \/ \E i \in Tasks : Open(i)
    \/ \E i \in Tasks : FetcherExit(i)
    \/ \E i \in Tasks : Validate(i)
    \/ \E i \in Tasks : Collect(i)
    \/ Return
    \/ Exit

\* What earlier runs can have left at a path: nothing, the empty file of an
\* interrupted fetch, a payload of threshold size, a payload above it.
LeftFiles == {Absent, EmptyFile, File(Threshold, 1), File(Threshold + 1, 1)}

\* The last run of a behaviour, started on any store earlier runs can have
\* left, with any identifier list, worker count and fetcher behaviour.
InitOnAnyStore ==
    /\ run = MaxRuns
    /\ roster = "none"
    /\ codes \in CodeLists
    /\ workers \in 1..MaxWorkers
    /\ behav \in RunBehaviours(codes)
    /\ store \in [Codes -> LeftFiles]
    /\ startStore = store
    /\ prevOK = {}
    /\ mainpc = "start"
    /\ nsub = 0
    /\ pc = [i \in Tasks |-> "unsubmitted"]
    /\ linked = [i \in Tasks |-> FALSE]
    /\ rc = [i \in Tasks |-> NoValue]
    /\ outcome = [i \in Tasks |-> "none"]
    /\ fetched = [i \in Tasks |-> FALSE]
    /\ collected = [i \in Tasks |-> FALSE]
    /\ successful = 0
    /\ failed = 0
    /\ ret = NoValue
    /\ exitStatus = NoValue
    /\ FetcherParked
    /\ ExtractParked

\* One run under fairness: the main thread and the pool's threads keep
\* running, and every fetcher subprocess ends.
FairSpec == InitOnAnyStore /\ [][RunStep]_vars /\ WF_vars(RunStep)

\* ------------------------------------------- the fetcher subprocess alone

\* No run of the orchestrator is under way.
MainParked ==
    /\ run = 1
    /\ roster = "none"
    /\ codes = <<>>
    /\ workers = 1
    /\ behav = [c \in Codes |-> "ok"]
    /\ store = [c \in Codes |-> Absent]
    /\ startStore = store
    /\ prevOK = {}
    /\ mainpc = "start"
    /\ nsub = 0
    /\ pc = <<>>
    /\ linked = <<>>
    /\ rc = <<>>
    /\ outcome = <<>>
    /\ fetched = <<>>
    /\ collected = <<>>
    /\ successful = 0
    /\ failed = 0
    /\ ret = NoValue
    /\ exitStatus = NoValue

FetchTypeOK ==
    /\ argc \in 1..OrchestratorArgc
    /\ provider \in [1..MaxAttempts -> Responses]
    /\ dataSize \in SeriesSizes
    /\ fpc \in {"idle", "call", "sleep", "returned", "exited"}
    /\ attempt \in 0..MaxAttempts
    /\ calls \in 0..MaxAttempts
    /\ sleeps \in 0..MaxAttempts
    /\ fret \in {"none", "data", "None"}
    /\ stdout \in {0, UsageSize} \cup SeriesSizes
    /\ childExit \in {NoValue, 0, 1}

\* The subprocess is started with any argument count, against a provider that
\* answers each attempt in any of its ways.
InitFetch ==
    /\ MainParked
    /\ ExtractParked
    /\ argc \in 1..OrchestratorArgc
    /\ provider \in [1..MaxAttempts -> Responses]
    /\ dataSize \in SeriesSizes
    /\ fpc = "idle"
    /\ attempt = 0
    /\ calls = 0
    /\ sleeps = 0
    /\ fret = "none"
    /\ stdout = 0
    /\ childExit = NoValue

\* main up to the call of fetch_stock_data: without a ticker argument the
\* usage line goes to standard output and the status is 1.
ChildStart ==
    /\ UNCHANGED notFetch
    /\ fpc = "idle"
    /\ IF argc < 2
       THEN /\ stdout' = UsageSize
            /\ childExit' = 1
            /\ fpc' = "exited"
            /\ UNCHANGED attempt
       ELSE /\ attempt' = 1
            /\ fpc' = "call"
            /\ UNCHANGED <<stdout, childExit>>
    /\ UNCHANGED <<argc, provider, dataSize, calls, sleeps, fret>>

\* One pass of the loop body: stock.history(period=period); a non-empty
\* history is returned; an empty one raises ValueError, and the except clause
\* retries or, after the last attempt, returns None.
CallProvider ==
    /\ UNCHANGED notFetch
    /\ fpc = "call"
    /\ calls' = calls + 1
    /\ IF provider[attempt] = "data"
       THEN fret' = "data" /\ fpc' = "returned"
       ELSE IF RetryAfter(attempt)
            THEN fret' = fret /\ fpc' = "sleep"
            ELSE fret' = "None" /\ fpc' = "returned"
    /\ UNCHANGED <<argc, provider, dataSize, attempt, sleeps, stdout, childExit>>

\* time.sleep(2), then the next value of the loop variable.
Sleep ==
    /\ UNCHANGED notFetch
    /\ fpc = "sleep"
    /\ sleeps' = sleeps + 1
    /\ attempt' = attempt + 1
    /\ fpc' = "call"
    /\ UNCHANGED <<argc, provider, dataSize, calls, fret, stdout, childExit>>

\* main after fetch_stock_data: data.to_csv(sys.stdout), or a message on
\* standard error and sys.exit(1).
ChildEnd ==
    /\ UNCHANGED notFetch
    /\ fpc = "returned"
    /\ stdout' = IF fret = "data" THEN dataSize ELSE stdout
    /\ childExit' = ChildExitOf(fret)
    /\ fpc' = "exited"
    /\ UNCHANGED <<argc, provider, dataSize, attempt, calls, sleeps, fret>>

NextFetch ==
    \/ ChildStart
    \/ CallProvider
    \/ Sleep
    \/ ChildEnd

\* The subprocess is a sequential program the operating system keeps running.
SpecFetch == InitFetch /\ [][NextFetch]_vars /\ WF_vars(NextFetch)

\* ------------------------------------------- extract_stock_codes alone

ExtractTypeOK ==
    /\ column \in Columns
    /\ readable \in BOOLEAN
    /\ xpc \in {"idle", "returned"}
    /\ result \in Seq(Seq(Digits))

\* extract_stock_codes is called on a roster with any column, readable or not.
InitExtract ==
    /\ MainParked
    /\ FetcherParked
    /\ column \in Columns
    /\ readable \in BOOLEAN
    /\ xpc = "idle"
    /\ result = <<>>

\* The call, from pd.read_csv to its return.
Extract ==
    /\ UNCHANGED notExtract
    /\ xpc = "idle"
    /\ result' = ExtractStockCodes(column, readable)
    /\ xpc' = "returned"
    /\ UNCHANGED <<column, readable>>

NextExtract == Extract

SpecExtract == InitExtract /\ [][NextExtract]_vars

\* ------------------------------------------------------- claim vocabulary

\* fetch_all_stocks has returned in the current run.
AfterBatch == ret # NoValue

\* The identifier list of the run is empty.
EmptyList == Len(codes) = 0

\* No identifier occurs twice in the list.
Distinct == \A i, j \in Tasks : codes[i] = codes[j] => i = j

\* Items of the current run with the given outcome.
Count(o) == Cardinality({i \in Tasks : outcome[i] = o})

\* Task i takes its os.path.exists step in this transition.
CheckStep(i) == pc[i] = "check" /\ pc'[i] # "check"

UndersizedPayloadLeavesNoArtifact ==
    AfterBatch =>
        \A i \in Tasks : (fetched[i] /\ behav[codes[i]] = "small") =>
            (outcome[i] = "Failure" /\ store[codes[i]] = Absent)

\* ---------------------------------------------------------------- C3
\* C3: in a run over the identifiers of the previous run, all of whose items
\* succeeded, the fetcher is never started and the store keeps the contents
\* the run found.
RerunFetchesNothing ==
    (run > 1 /\ ~EmptyList /\ prevOK = Range(codes)) =>
        /\ \A i \in Tasks : ~fetched[i]
        /\ store = startStore

\* C3 witness: such a second run has finished, over a list that had to be
\* fetched by the first run.
RerunFinished ==
    /\ run > 1
    /\ prevOK = Range(codes)
    /\ Range(codes) = Codes
    /\ AfterBatch
    /\ \A c \in Codes : store[c].gen = 1

\* ---------------------------------------------------------------- C4
\* C4 (as amended): in a run over identifiers that all have a valid artifact
\* already, every item is skipped and is counted as successful:
\* fetch_all_stocks returns successful = total, failed = 0.
RerunCountsSkippedAsSuccessful ==
    (AfterBatch /\ \A i \in Tasks : startStore[codes[i]] # Absent
                                  /\ startStore[codes[i]].size > Threshold) =>
        /\ \A i \in Tasks : outcome[i] = "Skipped"
        /\ successful = Len(codes)
        /\ failed = 0
        /\ ret = Len(codes)

\* C4 witness: a second run over a full list of valid artifacts has returned.
RerunOverValidArtifactsReturned ==
    /\ run > 1
    /\ AfterBatch
    /\ Len(codes) = MaxLen
    /\ \A i \in Tasks : startStore[codes[i]] # Absent
                        /\ startStore[codes[i]].size > Threshold

\* C4 (original): in such a run the aggregate reports successful = 0, the
\* already present items being counted as skipped only.
RerunReportsZeroSuccessful ==
    (run > 1 /\ AfterBatch
        /\ \A i \in Tasks : startStore[codes[i]] # Absent
                            /\ startStore[codes[i]].size > Threshold) =>
        /\ successful = 0
        /\ Count("Skipped") = Len(codes)

BoundedFetching == Cardinality(Fetching) <= workers

\* C6 witness: the pool is full of running fetchers while an item waits.
PoolSaturated ==
    /\ Cardinality(Fetching) = workers
    /\ \E i \in Tasks : pc[i] = "queued"

\* ---------------------------------------------------------------- C7
\* C7: an item has an outcome exactly when it has finished; the counters are
\* the numbers of collected items by result; when fetch_all_stocks has
\* returned every item is collected and Success + Failure + Skipped = total,
\* the code's successful being Success + Skipped and its failed being Failure.
CountersAccountForEveryItem ==
    /\ \A i \in Tasks : (outcome[i] # "none") <=> (pc[i] = "done")
    /\ \A i \in Tasks : collected[i] => pc[i] = "done"
    /\ successful = Cardinality({i \in Tasks : collected[i] /\ outcome[i] \in {"Success", "Skipped"}})
    /\ failed = Cardinality({i \in Tasks : collected[i] /\ outcome[i] = "Failure"})
    /\ AfterBatch =>
          /\ \A i \in Tasks : collected[i]
          /\ Count("Success") + Count("Failure") + Count("Skipped") = Len(codes)
          /\ successful + failed = Len(codes)
          /\ ret = Count("Success") + Count("Skipped")

\* C7 witness: a run of a full list on several workers has returned with a
\* skipped item and a failed one, each counted once.
SkippedAndFailedCounted ==
    /\ AfterBatch
    /\ Len(codes) = MaxLen
    /\ workers > 1
    /\ Count("Failure") > 0
    /\ Count("Skipped") > 0
    /\ successful = Count("Skipped")
    /\ failed = Count("Failure")

ExitZeroIffProgress ==
    (mainpc = "exited" /\ AfterBatch) =>
        /\ exitStatus \in {0, 1}
        /\ (exitStatus = 0) <=> (Count("Success") + Count("Skipped") > 0)

\* C9 witness: main has exited with status 0 after a batch in which nothing
\* was fetched successfully and something was skipped.
ExitedZeroOnSkipsAlone ==
    /\ mainpc = "exited"
    /\ AfterBatch
    /\ exitStatus = 0
    /\ Count("Success") = 0
    /\ Count("Skipped") > 0
    /\ Count("Failure") > 0

\* ---------------------------------------------------------------- C10
\* C10 (as amended): an empty identifier list leaves both counters at zero,
\* but its result is the result of a run in which every item failed:
\* fetch_all_stocks returns 0 in both cases, and main exits with status 1 in
\* both cases, for the empty list without calling fetch_all_stocks.
EmptyListResultIsFailureResult ==
    /\ EmptyList =>
          /\ successful = 0 /\ failed = 0
          /\ mainpc = "finished" => (ret = 0 /\ exitStatus = NoValue)
          /\ mainpc = "exited" => (exitStatus = 1 /\ ret = NoValue)
    /\ (~EmptyList /\ AfterBatch /\ Count("Failure") = Len(codes)) =>
          /\ ret = 0
          /\ mainpc = "exited" => exitStatus = 1

\* C10 witness: main has exited on an empty list.
EmptyListExited ==
    /\ EmptyList
    /\ roster = "ok"
    /\ mainpc = "exited"
    /\ exitStatus = 1

\* C10 (original): the result of an empty list is not an error and differs
\* from the result of a run in which every item failed (returned count 0,
\* exit status 1).
EmptyListIsDistinctNoWork ==
    (EmptyList /\ RunOver) =>
        /\ mainpc = "exited" => exitStatus = 0
        /\ mainpc = "finished" => ret # 0

\* ---------------------------------------------------------------- C11
\* C11: when the roster download fails, or the roster yields no identifier,
\* main exits with a non-zero status without having called fetch_all_stocks:
\* no item was submitted, no fetcher was started and the store is as the run
\* found it.
NoWorkWithoutRoster ==
    (mainpc = "exited" /\ (roster = "failed" \/ EmptyList)) =>
        /\ exitStatus = 1
        /\ ret = NoValue
        /\ nsub = 0
        /\ \A i \in Tasks : pc[i] = "unsubmitted" /\ ~fetched[i]
        /\ store = startStore

\* C11 witness: main has exited after a failed download, on a store that holds
\* a file and with a roster that would have yielded identifiers.
DownloadFailedExited ==
    /\ mainpc = "exited"
    /\ roster = "failed"
    /\ ~EmptyList
    /\ \E c \in Codes : store[c] # Absent

\* ---------------------------------------------------------------- C12
\* C12: an item that fails (the fetcher gives no data or cannot be started,
\* or opening the artifact raises) gets outcome Failure and adds exactly one
\* to the failed counter; the batch is never aborted: while fetch_all_stocks
\* has not returned one of its steps can be taken, and when it returns every
\* item is finished and recorded.
FailureIsOneFailure ==
    /\ \A i \in Tasks :
          (pc[i] = "done" /\ outcome[i] # "Skipped"
              /\ behav[codes[i]] \in {"nodata", "noexec", "noopen"}) =>
          outcome[i] = "Failure"
    /\ failed = Cardinality({i \in Tasks : collected[i] /\ outcome[i] = "Failure"})
    /\ InFetchAll => ENABLED BatchStep
    /\ AfterBatch =>
          \A i \in Tasks : pc[i] = "done" /\ collected[i] /\ outcome[i] # "none"

\* C12 witness: the first item failed on a storage error and was recorded,
\* and the second item was then fetched successfully and recorded.
FailureThenSuccessRecorded ==
    /\ AfterBatch
    /\ Len(codes) = 2
    /\ behav[codes[1]] = "noopen" /\ outcome[1] = "Failure"
    /\ outcome[2] = "Success" /\ fetched[2]
    /\ failed = 1 /\ successful = 1

\* ---------------------------------------------------------------- C13
\* C13: a run after the first, over distinct identifiers, fetches again (does
\* not skip) exactly the identifiers that lack a valid artifact when it
\* starts: the ones the earlier run left without a file or with a file of at
\* most the threshold size, which are the ones that failed there.  Stated
\* for the stores in which every file holds a payload.
RerunFetchesWhatLacksValidArtifact ==
    (run > 1 /\ AfterBatch /\ Distinct
        /\ \A c \in Codes : startStore[c].size # 0) =>
        \A i \in Tasks :
            (outcome[i] # "Skipped") <=>
                (startStore[codes[i]] = Absent
                    \/ startStore[codes[i]].size <= Threshold)

\* ---------------------------------------------------------------- C14
\* fetch_stock_data has returned.
FetchReturned == fret # "none"

\* C14: fetch_stock_data calls the provider at most 3 times; it returns the
\* data at the first attempt that gives a non-empty history, without a
\* further call; it sleeps once between two attempts and never after the
\* last one; it returns None exactly when all 3 attempts failed or were
\* empty; and the subprocess always comes to its end.
FetchRetriesThenEnds ==
    /\ [](/\ calls <= MaxAttempts
          /\ FetchReturned =>
                /\ sleeps = calls - 1
                /\ fret = "data" =>
                      /\ provider[calls] = "data"
                      /\ \A a \in 1..(calls - 1) : provider[a] # "data"
                /\ (fret = "None") <=>
                      (\A a \in 1..MaxAttempts : provider[a] # "data")
                /\ fret = "None" => calls = MaxAttempts)
    /\ <>(fpc = "exited")

\* C14 witness: the history came at the third attempt, after an empty one and
\* an error, with two sleeps.
DataAtThirdAttempt ==
    /\ fpc = "exited"
    /\ provider = <<"empty", "error", "data">>
    /\ fret = "data"
    /\ calls = 3
    /\ sleeps = 2

\* ---------------------------------------------------------------- C15
\* C15: started with a ticker argument, as the orchestrator starts it, the
\* subprocess ends in one of two ways: with status 0 and the serialized
\* series on its standard output, exactly if fetch_stock_data returned data;
\* else with status 1 and nothing on its standard output.  By that status and
\* the size of the redirected output the orchestrator gives Success exactly
\* to a returned series above the threshold, and Failure otherwise.
SubprocessHasTwoOutcomes ==
    (fpc = "exited" /\ argc >= 2) =>
        /\ childExit \in {0, 1}
        /\ (childExit = 0) <=> (fret = "data")
        /\ fret = "data" => stdout = dataSize
        /\ fret # "data" => (childExit = 1 /\ stdout = 0)
        /\ Classify(childExit, File(stdout, 1)) =
              IF fret = "data" /\ dataSize > Threshold THEN "Success" ELSE "Failure"

\* C15 witness: the subprocess the orchestrator started has ended after
\* fetch_stock_data returned None.
ExitedWithoutData ==
    /\ fpc = "exited"
    /\ argc = OrchestratorArgc
    /\ fret = "None"
    /\ childExit = 1
    /\ stdout = 0

\* ---------------------------------------------------------------- C16
\* C16: no two items that are executing at the same time hold the same
\* artifact path between their open and their close or removal of it,
\* whatever the list, one that repeats an identifier included.
NoTwoItemsOnOnePath ==
    \A i, j \in Tasks :
        (i # j /\ pc[i] \in {"run", "validate"} /\ pc[j] \in {"run", "validate"}) =>
            PathOf(i) # PathOf(j)

\* ---------------------------------------------------------------- C17
\* C17: from a store in which every file is a valid artifact, and with a
\* fetcher that gives each identifier a valid series or no data, every item
\* that fetch_all_stocks counted as successful has a valid artifact in the
\* store when fetch_all_stocks returns, whatever the list, one that repeats
\* an identifier included.
CountedSuccessfulHasArtifact ==
    (/\ AfterBatch
     /\ \A c \in Codes : startStore[c] = Absent \/ startStore[c].size > Threshold
     /\ \A c \in Codes : behav[c] \in {"ok", "nodata"}) =>
        \A i \in Tasks :
            outcome[i] \in {"Skipped", "Success"} =>
                (store[codes[i]] # Absent /\ store[codes[i]].size > Threshold)

\* ---------------------------------------------------------------- C18
\* C18: fetch_all_stocks has returned, and main has decided its exit status,
\* only with every submitted item finished and its outcome counted, the
\* returned count being the final one; and the run comes to its end, whatever
\* the store it finds, the list and the number of workers.
ReturnsAfterAllAndRunEnds ==
    /\ [](AfterBatch =>
            /\ nsub = Len(codes)
            /\ \A i \in Tasks : pc[i] = "done" /\ collected[i]
            /\ ret = successful
            /\ successful + failed = Len(codes))
    /\ []((exitStatus # NoValue /\ ~EmptyList /\ roster = "ok") => AfterBatch)
    /\ <>RunOver

\* C18 witness: a run of two items on two workers has come to its end with
\* both items fetched.
TwoFetchedAndExited ==
    /\ mainpc = "exited"
    /\ AfterBatch
    /\ workers = 2
    /\ Len(codes) = 2
    /\ \A i \in Tasks : fetched[i] /\ collected[i]

\* ---------------------------------------------------------------- C19
\* C19: extract_stock_codes returns, in the order of the roster, the digits
\* of exactly the non-empty cells that have exactly 4 digit characters, and
\* the empty list when reading the roster raises.  Stated for the rosters in
\* which no cell begins with a zero.
ExtractKeepsFourDigitCells ==
    (xpc = "returned"
        /\ \A k \in 1..Len(column) : column[k] # Missing => column[k][1] # "0") =>
        result = IF readable
                 THEN SelectSeq([k \in 1..Len(DropNa(column)) |-> OnlyDigits(DropNa(column)[k])],
                                LAMBDA c : Len(c) = CodeLength)
                 ELSE <<>>

====
